---- MODULE Spec2Model ----
(***************************************************************************)
(* Model of the two documentation patch scripts                            *)
(*   src/scripts/update-handoff-standards.py   (script "handoff")          *)
(*   src/update-spec-guide.py                  (script "guide")            *)
(*                                                                         *)
(* A document is a sequence of tokens.  A token stands for one newline     *)
(* character, one horizontal rule, one code fence, or one run of text the  *)
(* scripts only ever treat as a unit (a heading line, a sentence, the      *)
(* body of an inserted section).  The search strings and the inserted      *)
(* texts are spelled token by token from the string literals of the        *)
(* source, so that every way in which two of them can overlap in the       *)
(* source text is an overlap of their token sequences.                     *)
(***************************************************************************)
EXTENDS Integers, Sequences, FiniteSets, TLC

\* ------------------------------------------------------------------ bounds
MaxChunks == 3      \* a document on disk is built from at most this many chunks
MaxRuns   == 2      \* the script is started at most this many times in a row

\* ------------------------------------------------------------------ tokens
NL    == "NL"       \* one newline character
HR    == "HR"       \* three dashes
FENCE == "FENCE"    \* three backticks
X     == "X"        \* a run of text that is part of no search string

\* update-handoff-standards.py: the text fragments of the three search strings
RuleLine  == "RuleLine"     \* the bold Rule sentence, "... MUST use handoffs to preserve context."
MandReq   == "MandReq"      \* heading "Mandatory Requirements"
PhaseRule == "PhaseRule"    \* bold sentence "A phase is NOT complete until BOTH files exist and pass ..."
AntiPat   == "AntiPat"      \* heading "Anti-Patterns"
CritRule  == "CritRule"     \* heading "Critical Rule"

\* update-spec-guide.py: the text fragments of the three patterns
WebRes    == "WebRes"       \* list item "External: web-researcher"
Phase0    == "Phase0"       \* heading "Phase 0: Scaffolding"
OrchPr    == "OrchPr"       \* list item "P[N]_ORCHESTRATOR_PROMPT.md - Concise, copy-paste ready prompt"
NewSpec   == "NewSpec"      \* heading "Creating a New Spec"
Lesson    == "Lesson"       \* bold Lesson sentence of anti-pattern 10, "... for templates."
RelDoc    == "RelDoc"       \* heading "Related Documentation"

\* newline newline rule newline newline, and the same without the last newline
Sep     == <<NL, NL, HR, NL, NL>>
SepOpen == <<NL, NL, HR, NL>>

\* ------------------------------------------------------- inserted sections
context_budget_section ==
    <<NL, "cbs_body", NL, NL, HR, NL, NL>>

intra_phase_checkpoints_section ==
    <<NL, "ipc_body", NL, NL, HR, NL, NL>>

context_budget_checklist ==
    <<NL, "cbc_body", NL, NL>>

delegation_rules ==
    <<HR, NL, NL, "dr_body", NL, NL, HR>>

phase_sizing ==
    <<HR, NL, NL, "ps_body", NL, NL, HR>>

new_antipatterns ==
    <<NL, "na_body", NL, FENCE, NL>>

\* --------------------------------------------------------- string searching
\* pat occurs in s at index i
IsAt(s, i, pat) ==
    /\ i >= 1
    /\ i + Len(pat) - 1 <= Len(s)
    /\ SubSeq(s, i, i + Len(pat) - 1) = pat

\* "pat in s"
Contains(s, pat) == \E i \in 1..Len(s) : IsAt(s, i, pat)

\* s.count(pat): non-overlapping occurrences, scanning from the left
RECURSIVE CountFrom(_, _, _)
CountFrom(s, i, pat) ==
    IF i > Len(s) THEN 0
    ELSE IF IsAt(s, i, pat) THEN 1 + CountFrom(s, i + Len(pat), pat)
    ELSE CountFrom(s, i + 1, pat)

Count(s, pat) == CountFrom(s, 1, pat)

\* ------------------------------------------------------------ str.replace
\* s.replace(old, new): every non-overlapping occurrence of old, found
\* scanning from the left, is replaced by new (no count argument is passed)
RECURSIVE ReplaceFrom(_, _, _, _)
ReplaceFrom(s, i, old, new) ==
    IF i > Len(s) THEN << >>
    ELSE IF IsAt(s, i, old) THEN new \o ReplaceFrom(s, i + Len(old), old, new)
    ELSE << s[i] >> \o ReplaceFrom(s, i + 1, old, new)

\* variant: a search string that is not found has the new text appended
str_replace_AppendIfAbsent(s, old, new) ==
    IF Contains(s, old) THEN ReplaceFrom(s, 1, old, new) ELSE s \o new

\* variant: nothing is replaced when the new text is already in the document
str_replace_SkipIfPresent(s, old, new) ==
    IF Contains(s, new) THEN s ELSE ReplaceFrom(s, 1, old, new)

str_replace(s, old, new) == ReplaceFrom(s, 1, old, new)

\* ----------------------------------------------------------------- re.sub
\* The three patterns are of the shape (g1)\n(g2) with every metacharacter
\* escaped, so a match is a literal occurrence of g1, one newline, g2.
GROUP1 == "GROUP1"      \* the backreference \1 of a replacement template
GROUP2 == "GROUP2"      \* the backreference \2 of a replacement template

PatternText(pattern) == pattern.g1 \o << NL >> \o pattern.g2

\* expansion of a replacement template for a match of the pattern
RECURSIVE Expand(_, _)
Expand(repl, pattern) ==
    IF repl = << >> THEN << >>
    ELSE (IF Head(repl) = GROUP1 THEN pattern.g1
          ELSE IF Head(repl) = GROUP2 THEN pattern.g2
          ELSE << Head(repl) >>) \o Expand(Tail(repl), pattern)

\* re.sub(pattern, repl, s): every non-overlapping match, leftmost first,
\* is replaced by the expanded template (no count argument is passed)
RECURSIVE SubFrom(_, _, _, _)
SubFrom(s, i, pattern, repl) ==
    IF i > Len(s) THEN << >>
    ELSE IF IsAt(s, i, PatternText(pattern))
         THEN Expand(repl, pattern) \o SubFrom(s, i + Len(PatternText(pattern)), pattern, repl)
    ELSE << s[i] >> \o SubFrom(s, i + 1, pattern, repl)

re_sub(pattern, repl, s) == SubFrom(s, 1, pattern, repl)

\* ------------------------------------- update-handoff-standards.py, rules
\* first argument (search string) and second argument of each content.replace
HandoffOld(k) ==
    CASE k = 1 -> << RuleLine >> \o Sep \o << MandReq >>
      [] k = 2 -> << PhaseRule >> \o Sep \o << AntiPat >>
      [] k = 3 -> << CritRule, NL, NL, PhaseRule >>

\* variant: the replacement of Insert 2 lacks the heading that follows the section
HandoffNew_LostHeading(k) ==
    CASE k = 1 -> << RuleLine >> \o Sep \o context_budget_section \o << MandReq >>
      [] k = 2 -> << PhaseRule >> \o Sep \o intra_phase_checkpoints_section
      [] k = 3 -> context_budget_checklist \o << CritRule, NL, NL, PhaseRule >>

\* variant: Insert 3 puts the checklist after its search string
HandoffNew_ChecklistAfter(k) ==
    CASE k = 1 -> << RuleLine >> \o Sep \o context_budget_section \o << MandReq >>
      [] k = 2 -> << PhaseRule >> \o Sep \o intra_phase_checkpoints_section \o << AntiPat >>
      [] k = 3 -> << CritRule, NL, NL, PhaseRule >> \o context_budget_checklist

HandoffNew(k) ==
    CASE k = 1 -> << RuleLine >> \o Sep \o context_budget_section \o << MandReq >>
      [] k = 2 -> << PhaseRule >> \o Sep \o intra_phase_checkpoints_section \o << AntiPat >>
      [] k = 3 -> context_budget_checklist \o << CritRule, NL, NL, PhaseRule >>

HandoffInsert(k, c) == str_replace(c, HandoffOld(k), HandoffNew(k))

\* ------------------------------------------- update-spec-guide.py, rules
GuidePattern(k) ==
    CASE k = 1 -> [g1 |-> << WebRes >> \o SepOpen, g2 |-> << Phase0 >>]
      [] k = 2 -> [g1 |-> << OrchPr, NL, FENCE >> \o SepOpen, g2 |-> << NewSpec >>]
      [] k = 3 -> [g1 |-> << Lesson >> \o SepOpen, g2 |-> << RelDoc >>]

\* variant: the first template puts the section after the second group
GuideRepl_AfterMatch(k) ==
    CASE k = 1 -> << GROUP1, NL, GROUP2, NL, NL >> \o delegation_rules
      [] k = 2 -> << GROUP1 >> \o phase_sizing \o << NL, NL, GROUP2 >>
      [] k = 3 -> << GROUP1 >> \o new_antipatterns \o << NL, NL, HR, NL, NL, GROUP2 >>

GuideRepl(k) ==
    CASE k = 1 -> << GROUP1 >> \o delegation_rules \o << NL, NL, GROUP2 >>
      [] k = 2 -> << GROUP1 >> \o phase_sizing \o << NL, NL, GROUP2 >>
      [] k = 3 -> << GROUP1 >> \o new_antipatterns \o << NL, NL, HR, NL, NL, GROUP2 >>

GuideSub(k, c) == re_sub(GuidePattern(k), GuideRepl(k), c)

\* ------------------------------------------------------ both scripts alike
Scripts == {"handoff", "guide"}
Rules   == 1..3

\* the text a rule searches for
Anchor(sc, k) == IF sc = "handoff" THEN HandoffOld(k) ELSE PatternText(GuidePattern(k))

\* one rule applied to a text
ApplyRule(sc, k, c) == IF sc = "handoff" THEN HandoffInsert(k, c) ELSE GuideSub(k, c)

\* the three rules in the order of the source
Patch(sc, c) == ApplyRule(sc, 3, ApplyRule(sc, 2, ApplyRule(sc, 1, c)))

\* the lines printed after the write
SuccessLines(sc) ==
    IF sc = "handoff"
    THEN << "Successfully updated HANDOFF_STANDARDS.md with context budget protocol sections",
            "  - Added Context Budget Protocol section before Mandatory Requirements",
            "  - Added Intra-Phase Checkpoints section after Verification Checklist",
            "  - Added Context Budget Checklist at end of Verification Checklist section" >>
    ELSE << "Successfully updated SPEC_CREATION_GUIDE.md with:",
            "1. Orchestrator Delegation Rules section",
            "2. Phase Sizing Constraints section",
            "3. Three new anti-patterns (11, 12, 13)" >>

\* ------------------------------------------------------- documents on disk
\* The files the scripts are started on are concatenations of up to MaxChunks
\* chunks: whole search strings, their leading and trailing parts, and text
\* that belongs to none of them.
HandoffChunks ==
    { HandoffOld(k) : k \in Rules } \cup
    { << RuleLine >> \o Sep, << MandReq >>, << CritRule, NL, NL >>,
      Sep \o << AntiPat >>, << X >> }

GuideChunks ==
    { PatternText(GuidePattern(k)) : k \in Rules } \cup
    { GuidePattern(1).g1, << NL >>, << Phase0 >>, << X >> }

ChunksOf(sc) == IF sc = "handoff" THEN HandoffChunks ELSE GuideChunks

RECURSIVE DocsUpTo(_, _)
DocsUpTo(sc, n) ==
    IF n = 0 THEN { << >> }
    ELSE LET shorter == DocsUpTo(sc, n - 1)
         IN  shorter \cup { d \o c : d \in shorter, c \in ChunksOf(sc) }

Docs(sc) == DocsUpTo(sc, MaxChunks)

\* ------------------------------------------------------------------- state
VARIABLES
    script,     \* which of the two scripts is run
    perm,       \* access to the target file: "rw", "ro" (read-only), "none"
    disk,       \* the content of the target file
    content,    \* the local variable content
    pc,         \* the statement the run is at
    out,        \* the lines printed by the current run
    run,        \* number of the current run of the script
    trail,      \* history: content after f.read() and after each rule of this run
    hist,       \* history: the file as it was at the start, then as each completed write left it
    log         \* history: the steps the current run has taken

vars == << script, perm, disk, content, pc, out, run, trail, hist, log >>

Init ==
    /\ script \in Scripts
    /\ perm \in {"rw", "ro", "none"}
    /\ disk \in Docs(script)
    /\ content = << >>
    /\ pc = "read"
    /\ out = << >>
    /\ run = 1
    /\ trail = << >>
    /\ hist = << disk >>
    /\ log = << >>

\* ----------------------------------------------------------------- actions
\* with open(file_path, 'r') as f: content = f.read()
ReadFile ==
    /\ pc = "read"
    /\ perm # "none"
    /\ content' = disk
    /\ trail' = << disk >>
    /\ log' = Append(log, "read")
    /\ pc' = "rule1"
    /\ UNCHANGED << script, perm, disk, out, run, hist >>

\* open(file_path, 'r') raises; nothing catches it
ReadFails ==
    /\ pc = "read"
    /\ perm = "none"
    /\ pc' = "error"
    /\ UNCHANGED << script, perm, disk, content, out, run, trail, hist, log >>

\* variant: every rule also stores its result in the file
RuleStep_Persisting(sc, k, nxt) ==
    /\ script = sc
    /\ pc = << "rule1", "rule2", "rule3" >>[k]
    /\ content' = ApplyRule(sc, k, content)
    /\ disk' = content'
    /\ trail' = Append(trail, content')
    /\ log' = Append(log, << "rule1", "rule2", "rule3" >>[k])
    /\ pc' = nxt
    /\ UNCHANGED << script, perm, out, run, hist >>

\* the k-th rule rebinds content; nxt is the statement after it
RuleStep(sc, k, nxt) ==
    /\ script = sc
    /\ pc = << "rule1", "rule2", "rule3" >>[k]
    /\ content' = ApplyRule(sc, k, content)
    /\ trail' = Append(trail, content')
    /\ log' = Append(log, << "rule1", "rule2", "rule3" >>[k])
    /\ pc' = nxt
    /\ UNCHANGED << script, perm, disk, out, run, hist >>

HandoffInsert1 == RuleStep("handoff", 1, "rule2")
HandoffInsert2 == RuleStep("handoff", 2, "rule3")
HandoffInsert3 == RuleStep("handoff", 3, "open_w")
GuideSub1 == RuleStep("guide", 1, "rule2")
GuideSub2 == RuleStep("guide", 2, "rule3")
GuideSub3 == RuleStep("guide", 3, "open_w")

\* open(file_path, 'w'): the file is truncated when it is opened
OpenForWrite ==
    /\ pc = "open_w"
    /\ perm = "rw"
    /\ disk' = << >>
    /\ log' = Append(log, "open_w")
    /\ pc' = "write"
    /\ UNCHANGED << script, perm, content, out, run, trail, hist >>

\* variant: the failing open has emptied the file
OpenForWriteFails_Truncating ==
    /\ pc = "open_w"
    /\ perm = "ro"
    /\ disk' = << >>
    /\ pc' = "error"
    /\ UNCHANGED << script, perm, content, out, run, trail, hist, log >>

\* open(file_path, 'w') raises on a read-only file; nothing catches it
OpenForWriteFails ==
    /\ pc = "open_w"
    /\ perm = "ro"
    /\ pc' = "error"
    /\ UNCHANGED << script, perm, disk, content, out, run, trail, hist, log >>

\* variant: the patched text is stored only if every rule changed it
WriteFile_AllOrNothing ==
    /\ pc = "write"
    /\ disk' = (IF \E k \in 1..3 : trail[k + 1] = trail[k] THEN trail[1] ELSE content)
    /\ hist' = Append(hist, disk')
    /\ log' = Append(log, "write")
    /\ pc' = "print"
    /\ UNCHANGED << script, perm, content, out, run, trail >>

\* f.write(content) and the close at the end of the with block
WriteFile ==
    /\ pc = "write"
    /\ disk' = content
    /\ hist' = Append(hist, content)
    /\ log' = Append(log, "write")
    /\ pc' = "print"
    /\ UNCHANGED << script, perm, content, out, run, trail >>

\* variant: the confirmation is printed only if a rule changed the text
PrintSuccess_OnlyIfChanged ==
    /\ pc = "print"
    /\ out' = (IF content = trail[1] THEN << >> ELSE SuccessLines(script))
    /\ log' = Append(log, "print")
    /\ pc' = "done"
    /\ UNCHANGED << script, perm, disk, content, run, trail, hist >>

\* the print calls after the with block
PrintSuccess ==
    /\ pc = "print"
    /\ out' = SuccessLines(script)
    /\ log' = Append(log, "print")
    /\ pc' = "done"
    /\ UNCHANGED << script, perm, disk, content, run, trail, hist >>

\* the script is started again on the file it has just written
Rerun ==
    /\ pc = "done"
    /\ run < MaxRuns
    /\ run' = run + 1
    /\ pc' = "read"
    /\ content' = << >>
    /\ out' = << >>
    /\ trail' = << >>
    /\ log' = << >>
    /\ UNCHANGED << script, perm, disk, hist >>

Next ==
    \/ ReadFile
    \/ ReadFails
    \/ HandoffInsert1
    \/ HandoffInsert2
    \/ HandoffInsert3
    \/ GuideSub1
    \/ GuideSub2
    \/ GuideSub3
    \/ OpenForWrite
    \/ OpenForWriteFails
    \/ WriteFile
    \/ PrintSuccess
    \/ Rerun

Spec == Init /\ [][Next]_vars

TypeOK ==
    /\ script \in Scripts
    /\ pc \in {"read", "rule1", "rule2", "rule3", "open_w", "write", "print", "done", "error"}
    /\ run \in 1..MaxRuns

\* =================================================================== claims
\* the section text a rule inserts (the variable named in its replacement)
Section(sc, k) ==
    IF sc = "handoff"
    THEN << context_budget_section, intra_phase_checkpoints_section,
            context_budget_checklist >>[k]
    ELSE << delegation_rules, phase_sizing, new_antipatterns >>[k]

\* d with blk put in after its first i tokens
InsertedAt(d, i, blk) == SubSeq(d, 1, i) \o blk \o SubSeq(d, i + 1, Len(d))

\* index of the leftmost occurrence of pat in d (0 if there is none)
FirstAt(d, pat) ==
    IF Contains(d, pat)
    THEN CHOOSE i \in 1..Len(d) : IsAt(d, i, pat) /\ \A j \in 1..(i - 1) : ~IsAt(d, j, pat)
    ELSE 0

\* the rules that the current run has applied so far
Applied == { k \in Rules : k + 1 <= Len(trail) }

\* the part of a rule's search text that lies before its insertion point
LeadOf(sc, k) ==
    IF sc = "handoff"
    THEN << << RuleLine >> \o Sep, << PhaseRule >> \o Sep, << >> >>[k]
    ELSE GuidePattern(k).g1

\* everything a rule adds: the section, and for update-spec-guide.py the
\* newlines and the separator that its replacement template has in excess of
\* the one newline of the pattern
AddedBy(sc, k) ==
    IF sc = "handoff" THEN Section(sc, k)
    ELSE IF k = 3 THEN new_antipatterns \o << NL, NL, HR, NL >>
    ELSE Section(sc, k) \o << NL >>

\* C1 (as stated): when the search text of a rule occurs exactly once, the
\* result has the anchor immediately followed by the rule's block, and is the
\* input with that block added at one position and nothing else changed.
\* Read in the most favourable way: the anchor is the whole search text or
\* its leading part (the part the replacement keeps in front of the section),
\* the block is the section or all the text the rule adds.
C1_AnchorFollowedByBlock ==
    \A k \in Applied :
        Count(trail[k], Anchor(script, k)) = 1 =>
            \E blk \in {Section(script, k), AddedBy(script, k)} :
                /\ \/ Contains(trail[k + 1], Anchor(script, k) \o blk)
                   \/ /\ LeadOf(script, k) # << >>
                      /\ Contains(trail[k + 1], LeadOf(script, k) \o blk)
                /\ \E i \in 0..Len(trail[k]) :
                       trail[k + 1] = InsertedAt(trail[k], i, blk)

\* C1 (amended): when the search text of a rule occurs exactly once, the
\* result is the input with the rule's added text put in at one position and
\* nothing else changed; the position is right after the leading part of the
\* occurrence (for Insert 3 of update-handoff-standards.py the leading part is
\* empty: the block goes immediately before the occurrence).
C1_BlockInsertedAtAnchor ==
    \A k \in Applied :
        Count(trail[k], Anchor(script, k)) = 1 =>
            trail[k + 1] =
                InsertedAt(trail[k],
                           FirstAt(trail[k], Anchor(script, k)) - 1 + Len(LeadOf(script, k)),
                           AddedBy(script, k))

C1_Witness ==
    /\ Len(trail) = 4
    /\ script = "handoff"
    /\ \A k \in Rules : Count(trail[k], Anchor(script, k)) = 1
    /\ \A k \in Rules : Len(trail[k + 1]) > Len(trail[k])

\* C2: a rule applied to a text that does not contain its search text leaves
\* the text as it is, and the run does not fail at that rule (a run fails
\* only at the read or at the open for writing).
C2_AbsentAnchorNoChange ==
    /\ \A k \in Applied :
           ~Contains(trail[k], Anchor(script, k)) => trail[k + 1] = trail[k]
    /\ pc = "error" => Len(trail) \in {0, 4}

C2_Witness ==
    /\ Len(trail) = 4
    /\ trail[1] # << >>
    /\ ~Contains(trail[2], Anchor(script, 2))
    /\ trail[3] = trail[2]
    /\ trail[2] # trail[1]

\* C3: a rule applied to a text that contains its search text, once or more
\* often, changes the first occurrence only: the result is the input with the
\* rule's added text put in at the first occurrence, and it has exactly one
\* more copy of the section than the input.
C3_OnlyFirstOccurrence ==
    \A k \in Applied :
        Contains(trail[k], Anchor(script, k)) =>
            /\ trail[k + 1] =
                   InsertedAt(trail[k],
                              FirstAt(trail[k], Anchor(script, k)) - 1 + Len(LeadOf(script, k)),
                              AddedBy(script, k))
            /\ Count(trail[k + 1], Section(script, k)) = Count(trail[k], Section(script, k)) + 1

\* the six orders in which three rules can be applied
Orders == { o \in [1..3 -> Rules] : \A i, j \in 1..3 : i # j => o[i] # o[j] }

ApplyInOrder(sc, o, d) == ApplyRule(sc, o[3], ApplyRule(sc, o[2], ApplyRule(sc, o[1], d)))

\* no occurrence of one rule's search text shares a token with an occurrence
\* of another rule's search text
AnchorsDisjointIn(sc, d) ==
    \A j, k \in Rules : j # k =>
        \A p, q \in 1..Len(d) :
            IsAt(d, p, Anchor(sc, j)) /\ IsAt(d, q, Anchor(sc, k)) =>
                \/ p + Len(Anchor(sc, j)) <= q
                \/ q + Len(Anchor(sc, k)) <= p

\* C4: a further run on the file that a run has written inserts the section
\* of every rule whose search text occurs in that file once more: the file
\* after the further run has more copies of the section, at least two, and
\* differs from the file before it.
C4_RerunInsertsAgain ==
    \A r \in 2..(Len(hist) - 1) : \A k \in Rules :
        Contains(hist[r], Anchor(script, k)) =>
            /\ Count(hist[r + 1], Section(script, k)) > Count(hist[r], Section(script, k))
            /\ Count(hist[r + 1], Section(script, k)) >= 2
            /\ hist[r + 1] # hist[r]

C4_Witness ==
    /\ Len(hist) = 3
    /\ \E k \in Rules : Contains(hist[2], Anchor(script, k))
    /\ hist[2] # hist[1]

\* C5 (as stated): the search texts of the three rules of a script do not
\* overlap in the document, and the three rules applied in any of the six
\* orders give the text that the order of the source gives.
C5_DisjointAndOrderFree ==
    pc = "open_w" =>
        /\ AnchorsDisjointIn(script, trail[1])
        /\ \A o \in Orders : ApplyInOrder(script, o, trail[1]) = content

\* C5 (amended): the three rules applied in any of the six orders give the
\* text that the order of the source gives; the search texts of
\* update-spec-guide.py never overlap in a document (those of Insert 2 and
\* Insert 3 of update-handoff-standards.py may, on their common sentence).
C5_OrderFree ==
    pc = "open_w" =>
        /\ \A o \in Orders : ApplyInOrder(script, o, trail[1]) = content
        /\ script = "guide" => AnchorsDisjointIn(script, trail[1])

C5_Witness ==
    /\ pc = "open_w"
    /\ script = "handoff"
    /\ Contains(trail[1], << CritRule, NL, NL, PhaseRule >> \o Sep \o << AntiPat >>)
    /\ Contains(trail[1], Anchor(script, 1))
    /\ \A k \in Rules : trail[k + 1] # trail[k]

\* the rules whose search text does not occur in d
Missing(sc, d) == { k \in Rules : ~Contains(d, Anchor(sc, k)) }

\* the rules other than k, in the order of the source, applied to d
OthersAlone(sc, k, d) ==
    LET a == CHOOSE j \in Rules \ {k} : \A i \in Rules \ {k} : j <= i
        b == CHOOSE j \in Rules \ {k} : \A i \in Rules \ {k} : j >= i
    IN  ApplyRule(sc, b, ApplyRule(sc, a, d))

\* C6: a run on a writable file that has the search texts of two rules and
\* lacks that of the third does not fail, and once it has written, the file
\* holds what the two rules alone make of the text read: more copies of their
\* sections than before, and as many of the third rule's section as before.
C6_TwoOfThree ==
    \A k \in Rules :
        (perm = "rw" /\ Len(trail) = 4 /\ Missing(script, trail[1]) = {k}) =>
            /\ pc \in {"open_w", "write", "print", "done"}
            /\ pc \in {"print", "done"} =>
                   /\ disk = OthersAlone(script, k, trail[1])
                   /\ Count(disk, Section(script, k)) = Count(trail[1], Section(script, k))
                   /\ \A j \in Rules \ {k} :
                          Count(disk, Section(script, j)) > Count(trail[1], Section(script, j))

C6_Witness ==
    /\ pc = "done"
    /\ Cardinality(Missing(script, trail[1])) = 1
    /\ disk # trail[1]

\* every text that a number of complete runs can make of the first file
Settled == { hist[i] : i \in 1..Len(hist) } \cup { Patch(script, hist[Len(hist)]) }

\* C7 (as stated): on a read-only file the run fails, prints nothing and
\* leaves the file as it was; and in every state the file holds a complete
\* document, the original one or a patched one.
C7_NeverTruncated ==
    /\ perm = "ro" => (disk = hist[1] /\ out = << >> /\ pc \notin {"write", "print", "done"})
    /\ disk \in Settled

\* C7 (amended): on a read-only file the run fails at the open for writing,
\* prints nothing and leaves the file as it was.  On a writable file the file
\* holds the complete text read until it is opened for writing, is empty from
\* the open until the write, and holds the complete patched text afterwards.
C7_TruncatedOnlyWhileWriting ==
    /\ perm = "ro" => (disk = hist[1] /\ out = << >> /\ pc \notin {"write", "print", "done"})
    /\ (perm = "ro" /\ Len(trail) = 4) => pc \in {"open_w", "error"}
    /\ pc = "write" => disk = << >>
    /\ pc # "write" => disk = hist[Len(hist)]
    /\ pc \in {"print", "done"} => disk = Patch(script, hist[Len(hist) - 1])

C7_Witness ==
    /\ perm = "ro"
    /\ pc = "error"
    /\ Len(trail) = 4
    /\ content # disk

\* C8: every run that has read and written ends with the fixed confirmation
\* lines of its script printed, whether or not any rule changed the text;
\* nothing is printed before that.
C8_FixedSuccessLines ==
    /\ pc = "done" => out = SuccessLines(script)
    /\ pc # "done" => out = << >>

C8_Witness ==
    /\ pc = "done"
    /\ trail[1] # << >>
    /\ trail[4] = trail[1]
    /\ out = SuccessLines(script)

\* the steps of a run in the order of the source
Steps == << "read", "rule1", "rule2", "rule3", "open_w", "write", "print" >>

\* C9: the steps of a run are taken in the order of the source, each at most
\* once: read, the three rules, open for writing, write, print.  From the
\* read until the open for writing the file holds the text that was read,
\* each run writes at most once, and lines are printed only after the write.
C9_StraightLine ==
    /\ Len(log) <= Len(Steps)
    /\ log = SubSeq(Steps, 1, Len(log))
    /\ Len(trail) = (IF Len(log) <= 4 THEN Len(log) ELSE 4)
    /\ (Len(log) \in 1..4) => disk = trail[1]
    /\ Len(hist) - 1 <= run
    /\ Len(hist) - 1 = (IF Len(log) >= 6 THEN run ELSE run - 1)
    /\ out # << >> => Len(log) = 7

C9_Witness ==
    /\ pc = "open_w"
    /\ log = SubSeq(Steps, 1, 4)
    /\ content # trail[1]
    /\ disk = trail[1]

\* C10: when each of the three search texts occurs exactly once in the file a
\* script is first run on, the first run of update-spec-guide.py leaves none
\* of its search texts in the file and the second run leaves the file as the
\* first made it; the first run of update-handoff-standards.py leaves the
\* search text of Insert 3 only, and the second run adds one more copy of the
\* Context Budget Checklist and changes nothing else.
C10_SecondRun ==
    (Len(hist) >= 3 /\ \A k \in Rules : Count(hist[1], Anchor(script, k)) = 1) =>
        IF script = "guide"
        THEN /\ Missing(script, hist[2]) = Rules
             /\ hist[3] = hist[2]
        ELSE /\ Missing(script, hist[2]) = {1, 2}
             /\ \E i \in 0..Len(hist[2]) :
                    hist[3] = InsertedAt(hist[2], i, context_budget_checklist)

C10_WitnessGuide ==
    /\ Len(hist) = 3
    /\ script = "guide"
    /\ \A k \in Rules : Count(hist[1], Anchor(script, k)) = 1

====
